---- MODULE Spec2Model ----
(***************************************************************************)
(* A model of hr_agent.py: the query parser, the scoring function, the     *)
(* search orchestrator, the shortlist store and the command router.        *)
(*                                                                         *)
(* Conventions.                                                            *)
(*  - Python's None is the empty tuple <<>> and a present value v is the   *)
(*    one-element tuple <<v>>.                                             *)
(*  - A free-text query is the sequence of its whitespace-separated words; *)
(*    substring tests and regular expressions of the source are evaluated  *)
(*    on that sequence (adjacent words = words separated by white space).  *)
(*  - A shortlist name or an index string is the sequence of its           *)
(*    characters, so that digit extraction and joining are computed.       *)
(*  - An ISO date string "Y-M-D" is the tuple <<Y, M, D>> of its fields.    *)
(***************************************************************************)
EXTENDS Integers, Sequences, FiniteSets, TLC

VARIABLES
    candidates,   \* content of data/candidates.json (a sequence of records)
    shortlists,   \* content of data/shortlists.json (name -> index list)
    last_search,  \* repl(): results of the most recent search
    last_email,   \* repl(): None or the last drafted/edited email
    cmd,          \* the input line the router has just processed
    out,          \* what that iteration printed / resolved
    running,      \* FALSE once the loop has been left
    nread,        \* how many lines the session has read so far
    args,         \* arguments of a direct call of a module function
    ret,          \* the value that call returned
    pc            \* "call"/"done" around a direct call; in the loop, "read"
                  \* at the prompt and "dispatch" once a line is read

vars == <<candidates, shortlists, last_search, last_email, cmd, out, running,
          nread, args, ret, pc>>

routerVars == <<candidates, shortlists, last_search, last_email, cmd, out, running,
                nread>>

None == <<>>

Some(v) == <<v>>

IsNone(o) == o = <<>>

Min(a, b) == IF a <= b THEN a ELSE b

Max(a, b) == IF a >= b THEN a ELSE b

(***************************************************************************)
(* Strings.                                                                *)
(***************************************************************************)

\* <<lower-case form, title-case form>> of the words that carry case
CasePairs ==
    { <<"casablanca", "Casablanca">>, <<"rabat", "Rabat">>, <<"fes", "Fes">>,
      <<"react", "React">>, <<"this", "This">>, <<"available", "Available">>,
      <<"frontend", "Frontend">>, <<"intern", "Intern">>, <<"backend", "Backend">>,
      <<"junior", "Junior">>, <<"opportunity", "Opportunity">>,
      <<"save", "Save">>, <<"draft", "Draft">>, <<"change", "Change">>,
      <<"quit", "Quit">>, <<"show", "Show">> }

\* str.lower() of one word
Lower(w) ==
    IF \E p \in CasePairs : p[2] = w
    THEN (CHOOSE p \in CasePairs : p[2] = w)[1]
    ELSE w

\* str.title() of one word
Title(w) ==
    IF \E p \in CasePairs : p[1] = w
    THEN (CHOOSE p \in CasePairs : p[1] = w)[2]
    ELSE w

\* text.lower() of a text, word by word
LowerText(text) == [i \in 1..Len(text) |-> Lower(text[i])]

\* pat occurs in t starting at word i
ContainsAt(t, pat, i) ==
    /\ i >= 1
    /\ i + Len(pat) - 1 <= Len(t)
    /\ \A k \in 1..Len(pat) : t[i + k - 1] = pat[k]

\* Python's  pat in t
Contains(t, pat) == \E i \in 1..(Len(t) + 1) : ContainsAt(t, pat, i)

\* the least position satisfying P, as an option (re.search is leftmost)
FirstPos(n, P(_)) ==
    IF \E i \in 1..n : P(i)
    THEN Some(CHOOSE i \in 1..n : P(i) /\ \A j \in 1..(i - 1) : ~P(j))
    ELSE None

DigitWords == {"0", "1", "2", "3", "4", "5", "6", "7", "8", "9"}

\* int() of a one-digit word
DigitVal(w) ==
    CASE w = "0" -> 0 [] w = "1" -> 1 [] w = "2" -> 2 [] w = "3" -> 3
      [] w = "4" -> 4 [] w = "5" -> 5 [] w = "6" -> 6 [] w = "7" -> 7
      [] w = "8" -> 8 [] w = "9" -> 9

(***************************************************************************)
(* parse_query                                                             *)
(***************************************************************************)

\* words in which the role pattern matches, and the text it matches there
RoleWords ==
    { <<"intern", "intern">>, <<"interns", "intern">>, <<"junior", "junior">>,
      <<"frontend", "frontend">>, <<"backend", "backend">>,
      <<"trainee", "trainee">> }

\* the role matched at word i of t: None, or the matched text as words
RoleAt(t, i) ==
    IF \E p \in RoleWords : p[1] = t[i]
    THEN Some(<<(CHOOSE p \in RoleWords : p[1] = t[i])[2]>>)
    ELSE IF ContainsAt(t, <<"full", "stack">>, i) THEN Some(<<"full", "stack">>)
    ELSE IF ContainsAt(t, <<"react", "ui">>, i) THEN Some(<<"react", "ui">>)
    ELSE None

ParseRole(t) ==
    LET hit(i) == ~IsNone(RoleAt(t, i))
        pos == FirstPos(Len(t), hit)
    IN  IF IsNone(pos) THEN None ELSE RoleAt(t, pos[1])

\* words made only of the characters of [a-zéèêîïâàç\-]
LocWords ==
    { "casablanca", "rabat", "fes", "this", "next", "month", "days", "years",
      "available", "react", "intern", "interns", "junior", "frontend", "backend",
      "trainee", "full", "stack", "ui", "in", "y", "javascript", "js", "ts",
      "sql", "find", "-" }

known_cities == <<"casablanca", "rabat", "marrakesh", "marrakech", "tangier", "fes", "agadir">>

ParseLocation(t) ==
    LET hit(i) == t[i] = "in" /\ i < Len(t) /\ t[i + 1] \in LocWords
        pos == FirstPos(Len(t), hit)
        city(k) == \E i \in 1..Len(t) : t[i] = known_cities[k]
        cpos == FirstPos(Len(known_cities), city)
    IN  IF ~IsNone(pos) THEN Some(Title(t[pos[1] + 1]))
        ELSE IF ~IsNone(cpos) THEN Some(Title(known_cities[cpos[1]]))
        ELSE None

UnitWords == {"year", "years", "y"}

\* <<minExp, maxExp>>
ParseExperience(t) ==
    LET range(i) == /\ i + 3 <= Len(t)
                    /\ t[i] \in DigitWords
                    /\ t[i + 1] = "-"
                    /\ t[i + 2] \in DigitWords
                    /\ t[i + 3] \in UnitWords
        rpos == FirstPos(Len(t), range)
        single(i) == /\ i + 1 <= Len(t)
                     /\ t[i] \in DigitWords
                     /\ t[i + 1] \in UnitWords
        spos == FirstPos(Len(t), single)
    IN  IF ~IsNone(rpos)
        THEN <<Some(DigitVal(t[rpos[1]])), Some(DigitVal(t[rpos[1] + 2]))>>
        ELSE IF ~IsNone(spos)
        THEN LET v == DigitVal(t[spos[1]])
             IN  <<Some(Max(0, v - 1)), Some(v)>>
        ELSE <<None, None>>

SkillVocabulary ==
    { "react", "javascript", "js", "typescript", "ts", "html", "css", "git",
      "python", "flask", "sql", "django", "redux", "node", "next.js", "nextjs",
      "tailwind" }

\* str.capitalize() of a skill word
Capitalize(s) ==
    CASE s = "react" -> "React" [] s = "javascript" -> "Javascript"
      [] s = "typescript" -> "Typescript" [] s = "html" -> "Html"
      [] s = "css" -> "Css" [] s = "git" -> "Git" [] s = "python" -> "Python"
      [] s = "flask" -> "Flask" [] s = "sql" -> "Sql" [] s = "django" -> "Django"
      [] s = "redux" -> "Redux" [] s = "node" -> "Node" [] s = "next.js" -> "Next.js"
      [] s = "nextjs" -> "Nextjs" [] s = "tailwind" -> "Tailwind"
      [] s = "js" -> "Js" [] s = "ts" -> "Ts"

\* str.upper() of a skill word of at most two characters
Upper(s) == CASE s = "js" -> "JS" [] s = "ts" -> "TS"

NormSkill(s) ==
    LET s2 == CASE s = "javascript" -> "JS"
                [] s = "ts" -> "TypeScript"
                [] s = "next.js" -> "Next.js"
                [] s = "nextjs" -> "Next.js"
                [] OTHER -> IF Len(s) > 2 THEN Capitalize(s) ELSE Upper(s)
    IN  IF s2 = "Js" THEN "JS" ELSE s2

RECURSIVE ParseSkillsFrom(_, _, _)
ParseSkillsFrom(t, i, acc) ==
    IF i > Len(t) THEN acc
    ELSE IF t[i] \in SkillVocabulary
         THEN LET s2 == NormSkill(t[i])
              IN  IF \E k \in 1..Len(acc) : acc[k] = s2
                  THEN ParseSkillsFrom(t, i + 1, acc)
                  ELSE ParseSkillsFrom(t, i + 1, Append(acc, s2))
         ELSE ParseSkillsFrom(t, i + 1, acc)

ParseSkills(t) == ParseSkillsFrom(t, 1, <<>>)

\* re.search(r"available\s*(?:in)?\s*(\d+)\s*days", t): None or the number
AvailableInDays(t) ==
    LET plain(i) == /\ i + 2 <= Len(t)
                    /\ t[i] = "available"
                    /\ t[i + 1] \in DigitWords
                    /\ t[i + 2] = "days"
        within(i) == /\ i + 3 <= Len(t)
                     /\ t[i] = "available"
                     /\ t[i + 1] = "in"
                     /\ t[i + 2] \in DigitWords
                     /\ t[i + 3] = "days"
        hit(i) == plain(i) \/ within(i)
        pos == FirstPos(Len(t), hit)
    IN  IF IsNone(pos) THEN None
        ELSE IF within(pos[1]) THEN Some(DigitVal(t[pos[1] + 2]))
        ELSE Some(DigitVal(t[pos[1] + 1]))

ThisMonthDays == 30

NextMonthDays == 45

\* the three checks taken as independent, the last matching one winning
ParseAvailabilityIndependent(t) ==
    LET w0 == IF Contains(t, <<"available", "this", "month">>) \/ Contains(t, <<"this", "month">>)
              THEN Some(ThisMonthDays) ELSE None
        m == AvailableInDays(t)
        w1 == IF ~IsNone(m) THEN m ELSE w0
    IN  IF Contains(t, <<"available", "next", "month">>) THEN Some(NextMonthDays) ELSE w1

ParseAvailability(t) ==
    IF Contains(t, <<"available", "this", "month">>) \/ Contains(t, <<"this", "month">>)
    THEN Some(ThisMonthDays)
    ELSE LET m == AvailableInDays(t)
             w1 == IF ~IsNone(m) THEN m ELSE None
         IN  IF Contains(t, <<"available", "next", "month">>)
             THEN Some(NextMonthDays)
             ELSE w1

parse_query(text) ==
    LET t == LowerText(text)
        e == ParseExperience(t)
    IN  [ role |-> ParseRole(t),
          skills |-> ParseSkills(t),
          location |-> ParseLocation(t),
          minExp |-> e[1],
          maxExp |-> e[2],
          availabilityWindowDays |-> ParseAvailability(t) ]

(***************************************************************************)
(* Dates: datetime.date.fromisoformat and date subtraction.                *)
(***************************************************************************)

IsLeap(y) == (y % 4 = 0) /\ ((y % 100 # 0) \/ (y % 400 = 0))

DaysInMonth(y, m) ==
    IF m = 2 THEN (IF IsLeap(y) THEN 29 ELSE 28)
    ELSE IF m \in {4, 6, 9, 11} THEN 30
    ELSE 31

RECURSIVE DaysBeforeMonth(_, _)
DaysBeforeMonth(y, m) ==
    IF m <= 1 THEN 0 ELSE DaysBeforeMonth(y, m - 1) + DaysInMonth(y, m - 1)

DaysBeforeYear(y) ==
    LET p == y - 1 IN p * 365 + (p \div 4) - (p \div 100) + (p \div 400)

\* date.toordinal()
Ordinal(d) == DaysBeforeYear(d[1]) + DaysBeforeMonth(d[1], d[2]) + d[3]

\* fromisoformat(s): the date's ordinal, or None where Python raises
\* (TypeError for a missing value, ValueError for a malformed or impossible date)
FromIsoFormat(s) ==
    IF /\ Len(s) = 3
       /\ s[1] >= 1 /\ s[1] <= 9999
       /\ s[2] >= 1 /\ s[2] <= 12
       /\ s[3] >= 1 /\ s[3] <= DaysInMonth(s[1], s[2])
    THEN Some(Ordinal(s))
    ELSE None

(***************************************************************************)
(* _score_candidate                                                        *)
(***************************************************************************)

InList(s, list) == \E k \in 1..Len(list) : list[k] = s

Reason(kind, skills, loc, n) == [kind |-> kind, skills |-> skills, loc |-> loc, n |-> n]

\* [s for s in required_skills if s in c.get("skills", [])]
MatchedSkills(c, required_skills) ==
    SelectSeq(required_skills, LAMBDA s : InList(s, c.skills))

\* Python truthiness of the availability_days argument (None and 0 are falsy)
AvailabilityGiven(availability_days) ==
    ~IsNone(availability_days) /\ availability_days[1] # 0

\* the experience slack test
ExperienceFits(exp, minExp, maxExp) == exp >= (minExp - 1) /\ exp <= (maxExp + 1)

\* the availability window test on a parsed date
WithinWindow(delta, days) == 0 <= delta /\ delta <= days

\* today is datetime.date.today(), a well-formed date
score_candidate(c, required_skills, location, minExp, maxExp, availability_days, today) ==
    LET matched == MatchedSkills(c, required_skills)
        pts == 2 * Len(matched)
        s1 == IF Len(required_skills) > 0 /\ Len(matched) > 0 THEN pts ELSE 0
        r1 == IF s1 > 0 THEN <<Reason("skills", matched, "", pts)>> ELSE <<>>
        locHit == /\ ~IsNone(location)
                  /\ location[1] # ""
                  /\ Lower(location[1]) = Lower(c.location)
        s2 == IF locHit THEN 1 ELSE 0
        r2 == IF locHit THEN <<Reason("location", <<>>, location[1], 1)>> ELSE <<>>
        expHit == /\ ~IsNone(minExp)
                  /\ ~IsNone(maxExp)
                  /\ ExperienceFits(c.experienceYears, minExp[1], maxExp[1])
        s3 == IF expHit THEN 1 ELSE 0
        r3 == IF expHit THEN <<Reason("exp", <<>>, "", c.experienceYears)>> ELSE <<>>
        avail == FromIsoFormat(c.availabilityDate)
        delta == IF IsNone(avail) THEN 0 ELSE avail[1] - Ordinal(today)
        availHit == /\ AvailabilityGiven(availability_days)
                    /\ ~IsNone(avail)
                    /\ WithinWindow(delta, availability_days[1])
        s4 == IF availHit THEN 1 ELSE 0
        r4 == IF availHit THEN <<Reason("avail", <<>>, "", delta)>> ELSE <<>>
    IN  [score |-> s1 + s2 + s3 + s4, reasons |-> r1 \o r2 \o r3 \o r4]

(***************************************************************************)
(* search_candidates                                                       *)
(***************************************************************************)

\* required skills: the filter's, else those of the first job whose title
\* contains the role
RequiredSkills(filters, jobs) ==
    IF Len(filters.skills) > 0 THEN filters.skills
    ELSE IF IsNone(filters.role) \/ filters.role[1] = <<>> THEN <<>>
    ELSE LET key == LowerText(filters.role[1])
             hit(k) == Contains(LowerText(jobs[k].title), key)
             pos == FirstPos(Len(jobs), hit)
         IN  IF IsNone(pos) THEN <<>> ELSE jobs[pos[1]].skillsRequired

\* the entries with score > 0, in collection order
RECURSIVE ScoreAll(_, _, _, _, _)
ScoreAll(cands, idx, filters, required_skills, today) ==
    IF idx > Len(cands) THEN <<>>
    ELSE LET c == cands[idx]
             sr == score_candidate(c, required_skills, filters.location,
                                   filters.minExp, filters.maxExp,
                                   filters.availabilityWindowDays, today)
             rest == ScoreAll(cands, idx + 1, filters, required_skills, today)
         IN  IF sr.score > 0
             THEN <<[index |-> idx, candidate |-> c, score |-> sr.score,
                     reason |-> sr.reasons]>> \o rest
             ELSE rest

\* an insertion that puts x before the entries of equal score
InsertByScoreUnstable(sorted, x) ==
    IF Len(sorted) = 0 THEN <<x>>
    ELSE IF sorted[Len(sorted)].score > x.score THEN Append(sorted, x)
    ELSE LET k == CHOOSE i \in 1..Len(sorted) :
                      /\ sorted[i].score <= x.score
                      /\ \A j \in 1..(i - 1) : sorted[j].score > x.score
         IN  SubSeq(sorted, 1, k - 1) \o <<x>> \o SubSeq(sorted, k, Len(sorted))

\* where list.sort(key=score, reverse=True) puts x among the already sorted
\* entries that preceded it: after every entry whose score is not smaller
RECURSIVE InsertByScore(_, _)
InsertByScore(sorted, x) ==
    IF Len(sorted) = 0 THEN <<x>>
    ELSE IF Head(sorted).score >= x.score
         THEN <<Head(sorted)>> \o InsertByScore(Tail(sorted), x)
         ELSE <<x>> \o sorted

\* results.sort(key=lambda x: x["score"], reverse=True), a stable sort
RECURSIVE SortByScore(_)
SortByScore(results) ==
    IF Len(results) = 0 THEN <<>>
    ELSE InsertByScore(SortByScore(SubSeq(results, 1, Len(results) - 1)),
                       results[Len(results)])

\* Python's  list[:n]  (a negative n counts from the end)
SliceTo(list, n) ==
    IF n >= 0 THEN SubSeq(list, 1, Min(n, Len(list)))
    ELSE SubSeq(list, 1, Max(0, Len(list) + n))

search_candidates(filters, top_n, cands, jobs, today) ==
    LET required_skills == RequiredSkills(filters, jobs)
        results == ScoreAll(cands, 1, filters, required_skills, today)
    IN  SliceTo(SortByScore(results), top_n)

(***************************************************************************)
(* Direct calls of the module's functions.  The router's variables keep    *)
(* their start-up values while a function is exercised on its own.         *)
(***************************************************************************)

\* a state-less start of the session: empty data files, loop not entered
RouterIdle ==
    /\ candidates = <<>>
    /\ shortlists = <<>>
    /\ last_search = <<>>
    /\ last_email = None
    /\ cmd = None
    /\ out = None
    /\ running = FALSE
    /\ nread = 0

\* sequences over S of length at most n
RECURSIVE SeqsUpTo(_, _)
SeqsUpTo(S, n) ==
    IF n = 0 THEN {<<>>}
    ELSE LET shorter == SeqsUpTo(S, n - 1)
         IN  shorter \cup {Append(q, x) : q \in shorter, x \in S}

\* concatenations of at most n of the given phrases
RECURSIVE Concats(_, _)
Concats(P, n) ==
    IF n = 0 THEN {<<>>}
    ELSE LET shorter == Concats(P, n - 1)
         IN  shorter \cup {q \o x : q \in shorter, x \in P}

MaxPhrases == 2

Phrases ==
    { <<"Available", "this", "month">>, <<"this", "month">>,
      <<"available", "next", "month">>, <<"available", "in", "3", "days">>,
      <<"available", "0", "days">>, <<"React">>, <<"javascript">>, <<"js">>,
      <<"ts">>, <<"interns">>, <<"full", "stack">>, <<"in", "Casablanca">>,
      <<"rabat">>, <<"0", "-", "2", "years">>, <<"2", "years">>, <<"find">>,
      <<"next", "month">> }

QueryTexts == Concats(Phrases, MaxPhrases)

InitParse ==
    /\ RouterIdle
    /\ pc = "call"
    /\ args \in [text : QueryTexts]
    /\ ret = None

ParseCall ==
    /\ pc = "call"
    /\ ret' = Some(parse_query(args.text))
    /\ pc' = "done"
    /\ UNCHANGED <<args, routerVars>>

NextParse == ParseCall

SpecParse == InitParse /\ [][NextParse]_vars

\* the availability phrases of the text the parser was called on
SaysThisMonth == Contains(LowerText(args.text), <<"this", "month">>)

SaysNextMonth == Contains(LowerText(args.text), <<"available", "next", "month">>)

SaysInDays == AvailableInDays(LowerText(args.text))

\* C7: the three availability checks are independent and the last
\* matching one wins, so a text holding both the "this month" phrase and the
\* "available next month" phrase gets the later rule's 45 days.
C7_LastCheckWins ==
    pc = "done" =>
        ret[1].availabilityWindowDays =
            (IF SaysNextMonth THEN Some(NextMonthDays)
             ELSE IF ~IsNone(SaysInDays) THEN SaysInDays
             ELSE IF SaysThisMonth THEN Some(ThisMonthDays)
             ELSE None)

\* C7 amended: "this month" excludes the other two checks: a text with
\* "this month" gets 30 whatever else it holds; without it, "available next
\* month" gets 45, else "available (in) N days" gets N, else the window is unset.
C7_ThisMonthFirst ==
    pc = "done" =>
        LET w == ret[1].availabilityWindowDays
        IN  /\ SaysThisMonth => w = <<30>>
            /\ (~SaysThisMonth /\ SaysNextMonth) => w = <<45>>
            /\ (~SaysThisMonth /\ ~SaysNextMonth /\ ~IsNone(SaysInDays)) => w = SaysInDays
            /\ (~SaysThisMonth /\ ~SaysNextMonth /\ IsNone(SaysInDays)) => w = None

\* a parsed text in which both phrases occur
C7_BothPhrasesParsed ==
    /\ pc = "done"
    /\ SaysThisMonth
    /\ SaysNextMonth
    /\ ret[1].availabilityWindowDays = <<30>>

(***************************************************************************)
(* _score_candidate called directly, before and after one skill is added   *)
(* to the candidate.                                                       *)
(***************************************************************************)

MaxRequired == 2

MaxExp == 2

SkillNames == {"React", "JS"}

CandidateSkillLists == {<<>>, <<"React">>, <<"JS">>, <<"React", "JS">>}

\* ISO dates around the call date, an impossible date, a truncated one, none
AvailabilityDates ==
    { <<>>, <<2025, 2>>, <<2025, 2, 30>>, <<2025, 1, 30>>, <<2025, 1, 31>>,
      <<2025, 2, 1>>, <<2025, 3, 2>>, <<2025, 3, 3>>, <<2024, 3, 1>> }

CallDate == <<2025, 1, 31>>

LeapCallDate == <<2024, 2, 28>>

ScoreInputs ==
    [ c : [ firstName : {"Amina"},
            location : {"Casablanca"},
            skills : CandidateSkillLists,
            experienceYears : 0..MaxExp,
            availabilityDate : AvailabilityDates ],
      required_skills : SeqsUpTo(SkillNames, MaxRequired),
      location : {None, Some("casablanca")},
      exp : {<<None, None>>, <<Some(0), Some(0)>>},
      availability_days : {None, Some(0), Some(1), Some(30)},
      today : {CallDate, LeapCallDate},
      extra : SkillNames \cup {"Sql"} ]

InitScore ==
    /\ RouterIdle
    /\ pc = "call"
    /\ args \in ScoreInputs
    /\ ret = None

\* the candidate with one more entry in its skill list
WithSkill(c, s) == [c EXCEPT !.skills = Append(c.skills, s)]

ScoreOf(c) ==
    score_candidate(c, args.required_skills, args.location, args.exp[1],
                    args.exp[2], args.availability_days, args.today)

ScoreCall ==
    /\ pc = "call"
    /\ ret' = Some([base |-> ScoreOf(args.c), plus |-> ScoreOf(WithSkill(args.c, args.extra))])
    /\ pc' = "done"
    /\ UNCHANGED <<args, routerVars>>

NextScore == ScoreCall

SpecScore == InitScore /\ [][NextScore]_vars

\* the call's availability date as parsed, and its distance from the call date
CallAvail == FromIsoFormat(args.c.availabilityDate)

CallDelta == CallAvail[1] - Ordinal(args.today)

HasAvailReason(r) == \E k \in 1..Len(r.reasons) : r.reasons[k].kind = "avail"

\* C8: when a window W is given (0 included) and the availability date parses,
\* the availability point and its reason are awarded exactly when
\* 0 <= delta <= W; an unparsable or missing date awards nothing.
C8_PointIffWithinWindow ==
    pc = "done" =>
        /\ (~IsNone(args.availability_days) /\ ~IsNone(CallAvail)) =>
               (HasAvailReason(ret[1].base) <=>
                    (0 <= CallDelta /\ CallDelta <= args.availability_days[1]))
        /\ IsNone(CallAvail) => ~HasAvailReason(ret[1].base)

\* C9: adding a skill to the candidate never lowers the score, and adding a
\* required skill the candidate lacked raises it by exactly 2.
C9_AddedSkillAddsTwo ==
    pc = "done" =>
        /\ ret[1].plus.score >= ret[1].base.score
        /\ (InList(args.extra, args.required_skills) /\ ~InList(args.extra, args.c.skills)) =>
               ret[1].plus.score = ret[1].base.score + 2

(***************************************************************************)
(* search_candidates called directly.                                      *)
(***************************************************************************)

MaxCands == 3

MaxTopN == 3

Amina ==
    [ firstName |-> "Amina", location |-> "Casablanca", skills |-> <<"React", "JS">>,
      experienceYears |-> 1, availabilityDate |-> <<2025, 2, 5>> ]

Bilal ==
    [ firstName |-> "Bilal", location |-> "Rabat", skills |-> <<"React">>,
      experienceYears |-> 4, availabilityDate |-> <<2025, 6, 1>> ]

Chama ==
    [ firstName |-> "Chama", location |-> "Rabat", skills |-> <<"Sql">>,
      experienceYears |-> 1, availabilityDate |-> <<>> ]

SampleCandidates == {Amina, Bilal, Chama}

SampleJobs ==
    << [ title |-> <<"Frontend", "Intern">>, location |-> "Casablanca",
         skillsRequired |-> <<"React", "JS">>, jdSnippet |-> "Build UI" ],
       [ title |-> <<"Backend", "Junior">>, location |-> "Rabat",
         skillsRequired |-> <<"Sql">>, jdSnippet |-> "" ] >>

SearchQueries ==
    { <<"find">>,
      <<"find", "React">>,
      <<"find", "interns">>,
      <<"find", "React", "interns", "in", "Casablanca">>,
      <<"find", "junior", "rabat", "0", "-", "2", "years">>,
      <<"search", "available", "this", "month">> }

SearchInputs ==
    [ filters : {parse_query(q) : q \in SearchQueries},
      top_n : {0 - 2, 0 - 1} \cup 0..MaxTopN,
      cands : SeqsUpTo(SampleCandidates, MaxCands),
      jobs : {<<>>, SampleJobs},
      today : {CallDate} ]

InitSearch ==
    /\ RouterIdle
    /\ pc = "call"
    /\ args \in SearchInputs
    /\ ret = None

SearchCall ==
    /\ pc = "call"
    /\ ret' = Some(search_candidates(args.filters, args.top_n, args.cands, args.jobs, args.today))
    /\ pc' = "done"
    /\ UNCHANGED <<args, routerVars>>

NextSearch == SearchCall

SpecSearch == InitSearch /\ [][NextSearch]_vars

PositiveScores(res) == \A k \in 1..Len(res) : res[k].score > 0

DescendingScores(res) == \A i, j \in 1..Len(res) : i < j => res[i].score >= res[j].score

TiesByIndex(res) ==
    \A i, j \in 1..Len(res) :
        (i < j /\ res[i].score = res[j].score) => res[i].index < res[j].index

\* C1: for every collection, jobs list, filter and topN the result
\* has only positive scores, is in descending score order with ties in
\* ascending candidate index, and has at most topN entries.
C1_SearchContract ==
    pc = "done" =>
        /\ PositiveScores(ret[1])
        /\ DescendingScores(ret[1])
        /\ TiesByIndex(ret[1])
        /\ Len(ret[1]) <= args.top_n

\* C1 amended: positive scores, descending order and index-ordered ties hold
\* for every topN; the result has at most topN entries whenever topN >= 0.
C1_SearchContractNonNegativeTopN ==
    pc = "done" =>
        /\ PositiveScores(ret[1])
        /\ DescendingScores(ret[1])
        /\ TiesByIndex(ret[1])
        /\ args.top_n >= 0 => Len(ret[1]) <= args.top_n

\* three matching candidates, the two best tied behind the first one in the
\* file, cut to the top two
C1_TiedAndTruncated ==
    /\ pc = "done"
    /\ args.top_n = 2
    /\ Len(args.cands) = 3
    /\ args.cands[1] = Bilal
    /\ args.filters.skills = <<"React">>
    /\ Len(ret[1]) = 2
    /\ ret[1][1].index = 2
    /\ ret[1][2].index = 3
    /\ ret[1][1].score = ret[1][2].score

(***************************************************************************)
(* save_shortlist and _recipients_from_name_or_indices                     *)
(***************************************************************************)

\* a save that extends the list already stored under the name
save_shortlist_merging(lists, name, candidate_indices) ==
    [n \in (DOMAIN lists) \cup {name} |->
        IF n = name
        THEN (IF name \in DOMAIN lists THEN lists[name] ELSE <<>>) \o candidate_indices
        ELSE lists[n]]

\* lists[name] = candidate_indices on the loaded document, then written back
save_shortlist(lists, name, candidate_indices) ==
    [n \in (DOMAIN lists) \cup {name} |->
        IF n = name THEN candidate_indices ELSE lists[n]]

\* int() of a string of decimal digits
RECURSIVE IntOf(_)
IntOf(ds) ==
    IF Len(ds) = 0 THEN 0
    ELSE IntOf(SubSeq(ds, 1, Len(ds) - 1)) * 10 + DigitVal(ds[Len(ds)])

\* ",".join(nums)
RECURSIVE JoinComma(_)
JoinComma(nums) ==
    IF Len(nums) = 0 THEN <<>>
    ELSE IF Len(nums) = 1 THEN nums[1]
    ELSE nums[1] \o <<",">> \o JoinComma(Tail(nums))

\* re.findall(r"#?(\d+)", target): the maximal runs of digits, left to right
RECURSIVE DigitRuns(_, _, _)
DigitRuns(chars, i, cur) ==
    LET flush == IF cur = <<>> THEN <<>> ELSE <<cur>>
    IN  IF i > Len(chars) THEN flush
        ELSE IF chars[i] \in DigitWords
             THEN DigitRuns(chars, i + 1, Append(cur, chars[i]))
             ELSE flush \o DigitRuns(chars, i + 1, <<>>)

\* the indices a target stands for: the shortlist of that name if there is
\* one, else the numbers written in the target
TargetIndices(target, lists) ==
    IF target \in DOMAIN lists THEN lists[target]
    ELSE LET nums == DigitRuns(target, 1, <<>>)
         IN  [k \in 1..Len(nums) |-> IntOf(nums[k])]

\* a range test that stops one short of the collection's end
IndexInRangeExclusive(i, cands) == 1 <= i /\ i < Len(cands)

\* the range test guarding candidates[i-1]
IndexInRange(i, cands) == 1 <= i /\ i <= Len(cands)

\* the candidates at the in-range indices, in index-list order
RECURSIVE Dereference(_, _)
Dereference(indices, cands) ==
    IF Len(indices) = 0 THEN <<>>
    ELSE (IF IndexInRange(Head(indices), cands)
          THEN <<cands[Head(indices)]>> ELSE <<>>)
         \o Dereference(Tail(indices), cands)

recipients_from_name_or_indices(target, cands, lists) ==
    Dereference(TargetIndices(target, lists), cands)

(***************************************************************************)
(* draft_email.  A string is the sequence of the pieces it is formatted    *)
(* from ("" is <<>>); a text is the sequence of its lines, as split("\n")  *)
(* gives them ("" is one empty line).                                      *)
(***************************************************************************)

EmptyEmail == [subject |-> <<>>, text |-> <<<<>>>>]

Closing(tone) ==
    CASE tone = "formal" -> << <<"Kind regards,">>, <<"Soukaina">>, <<"Talent Acquisition">> >>
      [] tone = "concise" -> << <<"Thanks,">>, <<"Soukaina">> >>
      [] OTHER -> << <<"Cheers,">>, <<"Soukaina - Talent Team">> >>

draft_email(recipients, job_title, tone, jobs) ==
    IF Len(recipients) = 0 THEN EmptyEmail
    ELSE LET hit(k) == LowerText(jobs[k].title) = LowerText(job_title)
             pos == FirstPos(Len(jobs), hit)
             found == ~IsNone(pos)
             jd == IF found THEN jobs[pos[1]].jdSnippet ELSE ""
             skills == IF found THEN jobs[pos[1]].skillsRequired ELSE <<>>
             one == Len(recipients) = 1
             subject == IF one
                        THEN <<recipients[1].firstName, ", quick chat about a ">>
                             \o job_title \o <<" opportunity?">>
                        ELSE <<"Quick chat about a ">> \o job_title \o <<" opportunity?">>
             greeting == IF one THEN <<"Hi ", recipients[1].firstName, ",">>
                         ELSE <<"Hi there,">>
             where == IF found THEN jobs[pos[1]].location ELSE "our team"
             body == << greeting, <<>>,
                        <<"I'm reaching out about a ">> \o job_title
                            \o <<" role in ", where, ".">> >>
                     \o (IF jd # "" THEN <<<<jd>>>> ELSE <<>>)
                     \o (IF Len(skills) > 0
                         THEN << <<"Nice-to-have: ">> \o skills \o <<".">> >>
                         ELSE <<>>)
                     \o << <<>>, <<"Would you be open to a quick chat this week?">>, <<>> >>
                     \o Closing(tone)
         IN  [subject |-> subject, text |-> body]

\* the edit_email rewrite of the closing: everything up to and including the
\* last blank line (every line when there is none), then the new closing
ReplaceClosing(parts, closing) ==
    LET blanks == {k \in 1..Len(parts) : parts[k] = <<>>}
        last_blank == IF blanks = {} THEN Len(parts)
                      ELSE CHOOSE k \in blanks : \A j \in blanks : j <= k
    IN  SubSeq(parts, 1, last_blank) \o <<closing>>

(***************************************************************************)
(* classify_intent and repl.  An input line is a record: its words outside *)
(* quotes and #N tokens, and what the handlers' regular expressions        *)
(* extract from it (the quoted strings after "as", "for", "job",           *)
(* "subject to", "closing to", the tone word, and the #N digit strings).   *)
(***************************************************************************)

Line(words, asName, forName, nums, jobTitle, tone, subject, closing) ==
    [ words |-> words, asName |-> asName, forName |-> forName, nums |-> nums,
      jobTitle |-> jobTitle, tone |-> tone, subject |-> subject, closing |-> closing ]

\* the line holds something besides its words
HasTokens(q) ==
    \/ ~IsNone(q.asName) \/ ~IsNone(q.forName) \/ Len(q.nums) > 0
    \/ ~IsNone(q.jobTitle) \/ ~IsNone(q.subject) \/ ~IsNone(q.closing)

\* t.startswith(prefix + " ")
StartsWithWord(q, t, w) == Len(t) >= 1 /\ t[1] = w /\ (Len(t) > 1 \/ HasTokens(q))

classify_intent(q) ==
    LET t == LowerText(q.words)
    IN  IF \/ Contains(t, <<"find">>) \/ Contains(t, <<"search">>)
           \/ Contains(t, <<"look", "for">>)
        THEN "search"
        ELSE IF \/ StartsWithWord(q, t, "save")
                \/ \E i \in 2..Len(t) : t[i] = "save" /\ (i < Len(t) \/ HasTokens(q))
        THEN "save"
        ELSE IF \/ StartsWithWord(q, t, "draft")
                \/ Contains(t, <<"draft", "outreach", "email">>)
                \/ StartsWithWord(q, t, "email")
        THEN "email"
        ELSE IF \/ ContainsAt(t, <<"change", "the", "subject">>, 1)
                \/ Contains(t, <<"edit", "subject">>)
                \/ Contains(t, <<"closing">>)
        THEN "edit_email"
        ELSE IF Contains(t, <<"analytics">>) THEN "analytics"
        ELSE IF t \in {<<"quit">>, <<"exit">>} /\ ~HasTokens(q) THEN "quit"
        ELSE "unknown"

TopN == 5

\* the line is empty after strip(): the loop continues without classifying it
IsEmptyLine(q) == Len(q.words) = 0 /\ ~HasTokens(q)

\* datetime.date.today() during the session
SessionDate == CallDate

\* what an iteration printed: the message kind, the recipients an email was
\* drafted for, the index list a save persisted
Output(kind, recipients, mapped) ==
    [kind |-> kind, recipients |-> recipients, mapped |-> mapped]

\* a mapping that keeps the display numbers themselves
RECURSIVE MapDisplayUntranslated(_, _)
MapDisplayUntranslated(nums, search) ==
    IF Len(nums) = 0 THEN <<>>
    ELSE LET i == IntOf(Head(nums))
         IN  (IF 1 <= i /\ i <= Len(search) THEN <<i>> ELSE <<>>)
             \o MapDisplayUntranslated(Tail(nums), search)

\* map #i (1..len(last_search)) to original candidate index
RECURSIVE MapDisplay(_, _)
MapDisplay(nums, search) ==
    IF Len(nums) = 0 THEN <<>>
    ELSE LET i == IntOf(Head(nums))
         IN  (IF 1 <= i /\ i <= Len(search) THEN <<search[i].index>> ELSE <<>>)
             \o MapDisplay(Tail(nums), search)

\* the target the email handler resolves
EmailTarget(q) ==
    IF ~IsNone(q.forName) THEN q.forName[1]
    ELSE IF Len(q.nums) > 0 THEN JoinComma(q.nums)
    ELSE <<>>

\* lines read in one session
MaxCommands == 4

\* q = input("> ").strip(); an empty line goes back to the prompt
ReadLine(q) ==
    /\ pc = "read"
    /\ running
    /\ nread < MaxCommands
    /\ nread' = nread + 1
    /\ cmd' = Some(q)
    /\ out' = None
    /\ pc' = IF IsEmptyLine(q) THEN "read" ELSE "dispatch"
    /\ UNCHANGED <<candidates, shortlists, last_search, last_email, running, args, ret>>

\* the handler of intent i is entered for the line just read
Dispatch(i) ==
    /\ pc = "dispatch"
    /\ classify_intent(cmd[1]) = i
    /\ pc' = "read"
    /\ UNCHANGED <<cmd, nread, args, ret>>

Search ==
    /\ Dispatch("search")
    /\ LET results == search_candidates(parse_query(cmd[1].words), TopN, candidates,
                                        SampleJobs, SessionDate)
       IN  /\ last_search' = results
           /\ out' = Some(Output(IF Len(results) = 0 THEN "no_matches" ELSE "listing",
                                 <<>>, <<>>))
    /\ UNCHANGED <<candidates, shortlists, last_email, running>>

Save ==
    /\ Dispatch("save")
    /\ IF IsNone(cmd[1].asName) \/ Len(cmd[1].nums) = 0
       THEN /\ out' = Some(Output("usage", <<>>, <<>>))
            /\ UNCHANGED shortlists
       ELSE LET mapped == MapDisplay(cmd[1].nums, last_search)
            IN  IF Len(mapped) = 0
                THEN /\ out' = Some(Output("out_of_range", <<>>, <<>>))
                     /\ UNCHANGED shortlists
                ELSE /\ shortlists' = save_shortlist(shortlists, cmd[1].asName[1], mapped)
                     /\ out' = Some(Output("saved", <<>>, mapped))
    /\ UNCHANGED <<candidates, last_search, last_email, running>>

Email ==
    /\ Dispatch("email")
    /\ LET recipients == recipients_from_name_or_indices(EmailTarget(cmd[1]), candidates,
                                                         shortlists)
           job_title == IF IsNone(cmd[1].jobTitle) THEN <<"Opportunity">>
                        ELSE cmd[1].jobTitle[1]
           tone == IF IsNone(cmd[1].tone) THEN "friendly" ELSE cmd[1].tone[1]
       IN  /\ last_email' = Some(draft_email(recipients, job_title, tone, SampleJobs))
           /\ out' = Some(Output("preview", recipients, <<>>))
    /\ UNCHANGED <<candidates, shortlists, last_search, running>>

\* an edit handler that starts from an empty draft when there is none
EditEmailFromEmptyDraft ==
    /\ Dispatch("edit_email")
    /\ LET e0 == IF IsNone(last_email) THEN EmptyEmail ELSE last_email[1]
           e1 == IF IsNone(cmd[1].subject) THEN e0
                 ELSE [e0 EXCEPT !.subject = <<cmd[1].subject[1]>>]
           e2 == IF IsNone(cmd[1].closing) THEN e1
                 ELSE [e1 EXCEPT !.text = ReplaceClosing(e1.text, <<cmd[1].closing[1]>>)]
       IN  /\ last_email' = Some(e2)
           /\ out' = Some(Output("preview", <<>>, <<>>))
    /\ UNCHANGED <<candidates, shortlists, last_search, running>>

EditEmail ==
    /\ Dispatch("edit_email")
    /\ IF IsNone(last_email)
       THEN /\ out' = Some(Output("no_email", <<>>, <<>>))
            /\ UNCHANGED last_email
       ELSE LET e1 == IF IsNone(cmd[1].subject) THEN last_email[1]
                      ELSE [last_email[1] EXCEPT !.subject = <<cmd[1].subject[1]>>]
                e2 == IF IsNone(cmd[1].closing) THEN e1
                      ELSE [e1 EXCEPT !.text = ReplaceClosing(e1.text, <<cmd[1].closing[1]>>)]
            IN  /\ last_email' = Some(e2)
                /\ out' = Some(Output("preview", <<>>, <<>>))
    /\ UNCHANGED <<candidates, shortlists, last_search, running>>

Analytics ==
    /\ Dispatch("analytics")
    /\ out' = Some(Output("analytics", <<>>, <<>>))
    /\ UNCHANGED <<candidates, shortlists, last_search, last_email, running>>

Quit ==
    /\ Dispatch("quit")
    /\ running' = FALSE
    /\ out' = Some(Output("bye", <<>>, <<>>))
    /\ UNCHANGED <<candidates, shortlists, last_search, last_email>>

Unknown ==
    /\ Dispatch("unknown")
    /\ out' = Some(Output("help", <<>>, <<>>))
    /\ UNCHANGED <<candidates, shortlists, last_search, last_email, running>>

\* EOFError or KeyboardInterrupt while waiting for input
EndOfInput ==
    /\ pc = "read"
    /\ running
    /\ running' = FALSE
    /\ cmd' = None
    /\ out' = Some(Output("bye", <<>>, <<>>))
    /\ UNCHANGED <<candidates, shortlists, last_search, last_email, nread, args, ret, pc>>

\* between two commands the candidates file loses its last entry; every
\* handler reads the file afresh
ShrinkCandidates ==
    /\ pc = "read"
    /\ running
    /\ Len(candidates) > 0
    /\ candidates' = SubSeq(candidates, 1, Len(candidates) - 1)
    /\ cmd' = None
    /\ out' = None
    /\ UNCHANGED <<shortlists, last_search, last_email, running, nread, args, ret, pc>>

NameT2 == <<"T", "2">>

Name2 == <<"2">>

ShortlistNames == {NameT2, Name2}

\* the #N lists of the session's lines: "#2 #1", "#0 #2", "#1 #12", ...
NumLists ==
    { <<>>, <<<<"1">>>>, <<<<"2">>>>, <<<<"3">>>>, <<<<"2">>, <<"1">>>>,
      <<<<"0">>, <<"2">>>>, <<<<"1">>, <<"1", "2">>>> }

InitialCandidates == <<Bilal, Amina, Chama>>

PlainLines ==
    { Line(w, None, None, <<>>, None, None, None, None) :
        w \in { <<"find", "React", "js">>, <<"find", "rabat">>, <<"find">>,
                <<"Show", "analytics">>, <<"Quit">>, <<"hello">>, <<>> } }

SaveLines ==
    { Line(<<"Save", "as">>, n, None, nums, None, None, None, None) :
        n \in {None} \cup {Some(x) : x \in ShortlistNames}, nums \in NumLists }
    \cup { Line(<<"Save", "as", "search">>, Some(NameT2), None, <<<<"1">>>>,
                None, None, None, None) }

EmailLines ==
    { Line(<<"Draft", "email", "for">>, None, None, nums, None, None, None, None) :
        nums \in NumLists }
    \cup { Line(<<"Draft", "email", "for">>, None, Some(x), nums, None, None, None, None) :
             x \in ShortlistNames, nums \in {<<>>, <<<<"1">>>>} }
    \cup { Line(<<"Draft", "email", "for", "using", "job", "in", "tone">>, None, None,
                <<<<"2">>>>, Some(<<"Frontend", "Intern">>), Some("formal"), None, None) }

EditLines ==
    { Line(<<"Change", "the", "subject", "to">>, None, None, <<>>, None, None,
           Some("New subject"), None),
      Line(<<"set", "closing", "to">>, None, None, <<>>, None, None, None, Some("Best")),
      Line(<<"Change", "the", "subject", "to", "and", "closing", "to">>, None, None,
           <<>>, None, None, Some("New subject"), Some("Best")),
      Line(<<"Change", "the", "subject">>, None, None, <<>>, None, None, None, None) }

RouterLines == PlainLines \cup SaveLines \cup EmailLines \cup EditLines

Init ==
    /\ candidates = InitialCandidates
    /\ shortlists = <<>>
    /\ last_search = <<>>
    /\ last_email = None
    /\ cmd = None
    /\ out = None
    /\ running = TRUE
    /\ nread = 0
    /\ args = None
    /\ ret = None
    /\ pc = "read"

Next ==
    \/ \E q \in RouterLines : ReadLine(q)
    \/ Search
    \/ Save
    \/ Email
    \/ EditEmail
    \/ Analytics
    \/ Quit
    \/ Unknown
    \/ EndOfInput
    \/ ShrinkCandidates

Spec == Init /\ [][Next]_vars

(***************************************************************************)
(* Properties of the router.                                               *)
(***************************************************************************)

\* a handler has just run for the line in cmd
Handled == pc = "read" /\ ~IsNone(cmd) /\ ~IsNone(out)

\* the handler of intent i is about to run for the line in cmd
About(i) == pc = "dispatch" /\ classify_intent(cmd[1]) = i

\* the numbers written in a line's #N tokens
NumbersOf(q) == [k \in 1..Len(q.nums) |-> IntOf(q.nums[k])]

\* the candidate indices behind the display numbers of q that are within
\* the given search results, in the order written
DisplayedIndices(q, search) ==
    LET valid == SelectSeq(NumbersOf(q), LAMBDA n : 1 <= n /\ n <= Len(search))
    IN  [k \in 1..Len(valid) |-> search[valid[k]].index]

\* the candidates of the collection at the positions written in q that exist
CandidatesAt(q, cands) ==
    LET valid == SelectSeq(NumbersOf(q), LAMBDA n : 1 <= n /\ n <= Len(cands))
    IN  [k \in 1..Len(valid) |-> cands[valid[k]]]

\* lists is old with name set to indices and nothing else touched
OverwrittenWith(lists, old, name, indices) ==
    /\ DOMAIN lists = (DOMAIN old) \cup {name}
    /\ lists[name] = indices
    /\ \A n \in (DOMAIN old) \ {name} : lists[n] = old[n]

\* C2: a save line with a quoted name and #N tokens maps every N within
\* 1..len(last search) to the candidate index of the N-th result, drops the
\* others, and persists that list under the name; when no N is valid the
\* shortlists document is left unchanged.
C2_SaveMapsDisplayIndices ==
    [][ (About("save") /\ ~IsNone(cmd[1].asName) /\ Len(cmd[1].nums) > 0) =>
            LET mapped == DisplayedIndices(cmd[1], last_search)
            IN  IF Len(mapped) = 0
                THEN shortlists' = shortlists /\ out'[1].kind = "out_of_range"
                ELSE /\ OverwrittenWith(shortlists', shortlists, cmd[1].asName[1], mapped)
                     /\ out'[1].kind = "saved"
      ]_vars

\* "Save #0 #2 as ..." after a search whose second result is the first
\* candidate of the file: #0 is dropped and #2 is saved as index 1
C2_MixedSaveDone ==
    /\ Handled
    /\ out[1].kind = "saved"
    /\ cmd[1].nums = << <<"0">>, <<"2">> >>
    /\ Len(last_search) = 2
    /\ last_search[2].index = 1
    /\ shortlists[cmd[1].asName[1]] = <<1>>

\* C4: an email line whose quoted target is not the name of a stored
\* shortlist selects no candidate, whatever characters the name contains, and
\* the draft is the empty email.
C4_UnknownNameSelectsNobody ==
    (Handled /\ classify_intent(cmd[1]) = "email" /\ ~IsNone(cmd[1].forName)
        /\ cmd[1].forName[1] \notin DOMAIN shortlists) =>
        /\ out[1].recipients = <<>>
        /\ last_email = Some(EmptyEmail)

\* C5: an email line without a quoted target addresses the candidates at the
\* positions N of the collection (out-of-range N dropped), whatever the last
\* search and the earlier commands were, and sets the last email to the draft.
C5_NumbersAreCollectionIndices ==
    (Handled /\ classify_intent(cmd[1]) = "email" /\ IsNone(cmd[1].forName)) =>
        /\ out[1].recipients = CandidatesAt(cmd[1], candidates)
        /\ ~IsNone(last_email)

\* C6: with no email in context, an edit_email line reports that there is
\* nothing to edit and changes neither the last search, the last email nor
\* the shortlists, whatever replacement it carries.
C6_EditWithoutDraftChangesNothing ==
    [][ (About("edit_email") /\ IsNone(last_email)) =>
            /\ out' = Some(Output("no_email", <<>>, <<>>))
            /\ UNCHANGED <<last_search, last_email, shortlists, candidates>>
      ]_vars

\* an edit line carrying both replacements was answered "nothing to edit"
C6_EditRefused ==
    /\ Handled
    /\ out[1].kind = "no_email"
    /\ ~IsNone(cmd[1].subject)
    /\ ~IsNone(cmd[1].closing)
    /\ IsNone(last_email)

\* C10: the shortlists document changes only in a save handler run with at
\* least one valid display index, and then the name maps to exactly the
\* mapped list (no merge with the list it had, no range check against the
\* collection) and every other shortlist is as before.
C10_OnlySaveOverwrites ==
    [][ shortlists' # shortlists =>
            /\ About("save")
            /\ ~IsNone(cmd[1].asName)
            /\ Len(DisplayedIndices(cmd[1], last_search)) > 0
            /\ OverwrittenWith(shortlists', shortlists, cmd[1].asName[1],
                               DisplayedIndices(cmd[1], last_search))
      ]_vars

\* a second shortlist has been saved beside a different one, with an index that
\* the shrunken collection no longer has
C10_SecondShortlistSaved ==
    /\ Handled
    /\ out[1].kind = "saved"
    /\ DOMAIN shortlists = ShortlistNames
    /\ shortlists[cmd[1].asName[1]] = out[1].mapped
    /\ \E n \in ShortlistNames : shortlists[n] # out[1].mapped
    /\ \E k \in 1..Len(out[1].mapped) : out[1].mapped[k] > Len(candidates)

(***************************************************************************)
(* save_shortlist and _recipients_from_name_or_indices called directly,    *)
(* while the candidates file may lose entries between the calls.           *)
(***************************************************************************)

MaxIndex == 4

SavedIndexLists == SeqsUpTo(0..MaxIndex, 2)

InitShortlist ==
    /\ candidates = InitialCandidates
    /\ shortlists = <<>>
    /\ last_search = <<>>
    /\ last_email = None
    /\ cmd = None
    /\ out = None
    /\ running = FALSE
    /\ nread = 0
    /\ args = None
    /\ ret = None
    /\ pc = "start"

\* save_shortlist(name, indices); args remembers the call
SaveShortlistCall(name, indices) ==
    /\ shortlists' = save_shortlist(shortlists, name, indices)
    /\ args' = Some([name |-> name, indices |-> indices])
    /\ ret' = None
    /\ pc' = "saved"
    /\ UNCHANGED <<candidates, last_search, last_email, cmd, out, running, nread>>

\* _recipients_from_name_or_indices(name)
ResolveCall(name) ==
    /\ ret' = Some([name |-> name,
                    recipients |-> recipients_from_name_or_indices(name, candidates,
                                                                   shortlists)])
    /\ pc' = "resolved"
    /\ UNCHANGED <<candidates, shortlists, last_search, last_email, cmd, out, running,
                   nread, args>>

\* the candidates file loses its last entry
CandidatesShrink ==
    /\ Len(candidates) > 0
    /\ candidates' = SubSeq(candidates, 1, Len(candidates) - 1)
    /\ ret' = None
    /\ pc' = "shrunk"
    /\ UNCHANGED <<shortlists, last_search, last_email, cmd, out, running, nread, args>>

NextShortlist ==
    \/ \E name \in ShortlistNames, indices \in SavedIndexLists :
           SaveShortlistCall(name, indices)
    \/ \E name \in ShortlistNames : ResolveCall(name)
    \/ CandidatesShrink

SpecShortlist == InitShortlist /\ [][NextShortlist]_vars

\* the candidates at those of the given positions that the collection has
ExistingAt(indices, cands) ==
    LET valid == SelectSeq(indices, LAMBDA i : 1 <= i /\ i <= Len(cands))
    IN  [k \in 1..Len(valid) |-> cands[valid[k]]]

\* C3: resolving the name of the latest save_shortlist(name, indices) returns,
\* in the saved order, exactly the candidates at those 1-based positions of
\* the current collection, the positions below 1 or beyond its length being
\* left out.
C3_RoundTrip ==
    (pc = "resolved" /\ ~IsNone(args) /\ ret[1].name = args[1].name) =>
        ret[1].recipients = ExistingAt(args[1].indices, candidates)

\* positions 3 and 1 were saved, the file shrank to two entries, and the
\* name resolved to the first candidate alone
C3_ResolvedAfterShrink ==
    /\ pc = "resolved"
    /\ ~IsNone(args)
    /\ ret[1].name = args[1].name
    /\ args[1].indices = <<3, 1>>
    /\ Len(candidates) = 2
    /\ ret[1].recipients = <<candidates[1]>>

====
